---- MODULE Spec2Model ----
(***************************************************************************)
(* Task/project domain service layer of tasks-mcp: ProjectService and      *)
(* TaskService over the Redis-backed ProjectRepository and TaskRepository. *)
(* Every service call is an async function; each await on a repository     *)
(* command is one step of the call, so concurrent calls interleave at the  *)
(* repository commands.                                                    *)
(***************************************************************************)
EXTENDS Integers, Sequences, FiniteSets, TLC

\* ---------------------------------------------------------------- bounds
MaxClock == 1
MaxOps == 3

ProjectIds == {"p1", "p2"}
\* every call creates at most one task, so the ids never run out
TaskIds == 1..MaxOps
Calls == {"c1", "c2"}

\* ------------------------------------------------------------- constants
\* a status set that lost its last member
VALID_STATUSES_NoArchived == {"todo", "pending", "completed"}

\* a status set that admits whatever is sent
VALID_STATUSES_Any == {"todo", "pending", "completed", "archived", "bogus"}

VALID_STATUSES == {"todo", "pending", "completed", "archived"}

\* statuses a caller may send to moveTask: the four of TaskStatus and one value outside
StatusInputs == {"todo", "pending", "completed", "archived", "bogus"}

VARIABLES
    projects,       \* redis keys project:<id>        : id -> Project
    projectsIndex,  \* redis set  projects:index
    tasks,          \* redis keys task:<id>           : id -> Task
    tasksIndex,     \* redis set  tasks:index
    projectTasks,   \* redis sets project:<id>:tasks  : project id -> task ids
    clock,          \* the wall clock read by new Date()
    pc,             \* per call: the await the call is suspended at
    op,             \* per call: the service method called
    arg,            \* per call: the input object
    loc,            \* per call: the local variables of the method
    result,         \* per call: the returned value or the thrown error
    frozen,         \* per call: the project it concerns was archived when it started
    sequential,     \* whether every call runs to completion before the next starts
    config,         \* getConfig(): authUser and authPassword of the environment
    started         \* number of service calls started so far

storeVars == <<projects, projectsIndex, tasks, tasksIndex, projectTasks>>
callVars == <<pc, op, arg, loc, result>>
vars == <<projects, projectsIndex, tasks, tasksIndex, projectTasks, clock,
          pc, op, arg, loc, result, frozen, sequential, config, started>>

\* ------------------------------------------------------------- helpers
Put(f, k, v) == [x \in (DOMAIN f) \cup {k} |-> IF x = k THEN v ELSE f[x]]

Min(S) == CHOOSE x \in S : \A y \in S : x <= y

RECURSIVE SetToSeq(_)
SetToSeq(S) == IF S = {} THEN <<>> ELSE <<Min(S)>> \o SetToSeq(S \ {Min(S)})

Range(s) == {s[i] : i \in 1..Len(s)}

\* ------------------------------------------------------------- strings
\* A string is the sequence of its characters; an optional value is None or Some(v).
None == <<>>
Some(v) == <<v>>

\* the characters \s matches
Whitespace == {" "}

RECURSIVE TrimStart(_)
TrimStart(s) ==
    IF s # <<>> /\ Head(s) \in Whitespace THEN TrimStart(Tail(s)) ELSE s

RECURSIVE TrimEnd(_)
TrimEnd(s) ==
    IF s # <<>> /\ s[Len(s)] \in Whitespace THEN TrimEnd(SubSeq(s, 1, Len(s) - 1)) ELSE s

\* String.prototype.trim
Trim(s) == TrimEnd(TrimStart(s))

\* s?.trim() of an optional string
TrimOpt(o) == IF o = None THEN None ELSE Some(Trim(o[1]))

\* replace(/\s+/g, " "): every run of whitespace becomes one space
RECURSIVE CollapseWhitespace(_)
CollapseWhitespace(s) ==
    IF s = <<>> THEN <<>>
    ELSE IF Head(s) \in Whitespace
    THEN <<" ">> \o CollapseWhitespace(TrimStart(s))
    ELSE <<Head(s)>> \o CollapseWhitespace(Tail(s))

sanitizeString(s) == CollapseWhitespace(Trim(s))

\* String.prototype.split(","): the pieces between the commas, empty ones included
RECURSIVE SplitFrom(_, _)
SplitFrom(piece, rest) ==
    IF rest = <<>> THEN <<piece>>
    ELSE IF Head(rest) = "," THEN <<piece>> \o SplitFrom(<<>>, Tail(rest))
    ELSE SplitFrom(Append(piece, Head(rest)), Tail(rest))

SplitCommas(s) == SplitFrom(<<>>, s)

LowerChar(ch) ==
    CASE ch = "A" -> "a" [] ch = "B" -> "b" [] ch = "H" -> "h" [] ch = "L" -> "l"
      [] ch = "P" -> "p"
      [] OTHER -> ch

\* String.prototype.toLowerCase
ToLowerCase(s) == [i \in DOMAIN s |-> LowerChar(s[i])]

\* [...new Set(xs)]: the first occurrence of every element, in order
RECURSIVE Dedupe(_)
Dedupe(xs) ==
    IF xs = <<>> THEN <<>>
    ELSE LET init == Dedupe(SubSeq(xs, 1, Len(xs) - 1))
             last == xs[Len(xs)]
         IN IF last \in Range(init) THEN init ELSE Append(init, last)

\* ------------------------------------------------------------- call records
NoArg == [projectId |-> "none", taskId |-> 0, status |-> "undef",
          title |-> None, description |-> None, priority |-> "undef",
          dueDate |-> "undef", tags |-> None, name |-> None,
          parentTaskId |-> 0, includeArchived |-> FALSE, tool |-> "none",
          rawTags |-> None, hasSubtasks |-> None, sortBy |-> "undef",
          order |-> "undef", query |-> None, items |-> <<>>,
          entry |-> "none", header |-> None]

\* MCP_BASIC_AUTH_USER and MCP_BASIC_AUTH_PASSWORD both unset
NoAuth == [authUser |-> None, authPassword |-> None]

NoLoc == [project |-> <<>>, task |-> <<>>, now |-> 0, ids |-> <<>>,
          tasks |-> <<>>, projectMap |-> <<>>]

NoResult == [kind |-> "none", error |-> "", project |-> <<>>, task |-> <<>>,
             list |-> <<>>]

OkProject(p) == [NoResult EXCEPT !.kind = "ok", !.project = <<p>>]
OkTask(t) == [NoResult EXCEPT !.kind = "ok", !.task = <<t>>]
OkList(l) == [NoResult EXCEPT !.kind = "ok", !.list = l]
Thrown(e) == [NoResult EXCEPT !.kind = "error", !.error = e]

\* ------------------------------------------------------------ repositories
ProjectGetById(id) == IF id \in DOMAIN projects THEN <<projects[id]>> ELSE <<>>

TaskGetById(id) == IF id \in DOMAIN tasks THEN <<tasks[id]>> ELSE <<>>

TaskListByIds(ids) ==
    LET Present(id) == id \in DOMAIN tasks
        Get(id) == tasks[id]
        found == SelectSeq(ids, Present)
    IN [i \in DOMAIN found |-> Get(found[i])]

\* a save that keeps the stored status and flag
TaskSave_KeepsStatus(store, task) ==
    Put(store, task.id,
        IF task.id \in DOMAIN store
        THEN [task EXCEPT !.status = store[task.id].status,
                          !.archived = store[task.id].archived]
        ELSE task)

\* save: SET of the whole record
TaskSave(store, task) == Put(store, task.id, task)

\* a batch that stops after its first record
TaskSaveMany_FirstOnly(store, ts) ==
    IF ts = <<>> THEN store ELSE Put(store, Head(ts).id, Head(ts))

RECURSIVE TaskSaveMany(_, _)
TaskSaveMany(store, ts) ==
    IF ts = <<>> THEN store
    ELSE TaskSaveMany(Put(store, Head(ts).id, Head(ts)), Tail(ts))

\* ------------------------------------------------------------ call frames
Idle(c) == pc[c] \in {"idle", "done"}

TaskMutators == {"moveTask", "updateTask", "archiveTask"}

ProjectArchived(projectId) ==
    projectId \in DOMAIN projects /\ projects[projectId].archived

ProjectArchivedOf(taskId) ==
    taskId \in DOMAIN tasks /\ ProjectArchived(tasks[taskId].projectId)

\* A call takes the first free frame; which frame a request runs in is not observable.
FreeCall == IF Idle("c1") THEN "c1" ELSE "c2"

\* listTasks only reads, and is followed on a store at rest: a listing starts when no
\* other call is in flight and no call starts while a listing is in flight.
Listing(c) == op[c] = "listTasks" /\ ~Idle(c)

\* new Date(): time does not run backwards, and may have passed since the last reading
Times == clock..MaxClock

\* The frame of a call that has returned is cleared when the next call starts.
Begin(c, o, a, p, l) ==
    /\ Idle(c)
    /\ c = FreeCall
    /\ \A d \in Calls : ~Listing(d)
    /\ o = "listTasks" => \A d \in Calls : Idle(d)
    /\ sequential => \A d \in Calls : Idle(d)
    /\ started < MaxOps
    /\ started' = started + 1
    /\ frozen' = [d \in Calls |->
                    IF d = c
                    THEN \/ o \in TaskMutators /\ ProjectArchivedOf(a.taskId)
                         \/ o = "archiveProject" /\ ProjectArchived(a.projectId)
                    ELSE IF Idle(d) THEN FALSE ELSE frozen[d]]
    /\ pc' = [d \in Calls |-> IF d = c THEN p ELSE IF Idle(d) THEN "idle" ELSE pc[d]]
    /\ op' = [d \in Calls |-> IF d = c THEN o ELSE IF Idle(d) THEN "none" ELSE op[d]]
    /\ arg' = [d \in Calls |-> IF d = c THEN a ELSE IF Idle(d) THEN NoArg ELSE arg[d]]
    /\ loc' = [loc EXCEPT ![c] = l]
    /\ result' = [d \in Calls |-> IF d = c \/ Idle(d) THEN NoResult ELSE result[d]]
    /\ UNCHANGED <<storeVars, sequential, config>>

\* the calls that do not read the clock before their first await
Start(c, o, a, p) == Begin(c, o, a, p, NoLoc) /\ UNCHANGED clock

Goto(c, p, l) ==
    /\ pc' = [pc EXCEPT ![c] = p]
    /\ loc' = [loc EXCEPT ![c] = l]
    /\ UNCHANGED <<op, arg, result, started, frozen, sequential, config>>

\* the tools that call a service method once for every item of a list
LoopTools == {"create_task", "archive_task"}

\* the loop of a tool handler has items left after a call that returned
Continues(c, r) ==
    arg[c].tool \in LoopTools /\ r.kind = "ok" /\ arg[c].items # <<>>

\* the arguments of the call for the next item
NextItemArg(a) ==
    IF a.tool = "create_task"
    THEN [a EXCEPT !.title = Some(Head(a.items)), !.items = Tail(a.items)]
    ELSE [a EXCEPT !.taskId = Head(a.items), !.items = Tail(a.items)]

\* a handler that hands back the tasks it has pushed when a call throws
ToolResult_KeepsPartial(c, r) ==
    IF arg[c].tool \in LoopTools
    THEN IF r.kind = "ok"
         THEN OkList(Append(result[c].list, r.task[1]))
         ELSE [r EXCEPT !.list = result[c].list]
    ELSE r

\* tasks.push(task) after a call that returned; a throw leaves the handler with
\* the error alone
ToolResult(c, r) ==
    IF arg[c].tool \in LoopTools /\ r.kind = "ok"
    THEN OkList(Append(result[c].list, r.task[1]))
    ELSE r

\* A method returns or throws. In the loop of a tool handler the next call starts
\* at once and runs up to its first await.
Finish(c, r) ==
    /\ pc' = [pc EXCEPT ![c] =
                IF ~Continues(c, r) THEN "done"
                ELSE IF arg[c].tool = "create_task" THEN "ct_ensure" ELSE "mt_getTask"]
    /\ result' = [result EXCEPT ![c] =
                    IF Continues(c, r) THEN [ToolResult(c, r) EXCEPT !.kind = "none"]
                    ELSE ToolResult(c, r)]
    /\ arg' = IF Continues(c, r) THEN [arg EXCEPT ![c] = NextItemArg(arg[c])] ELSE arg
    /\ frozen' = IF Continues(c, r) /\ arg[c].tool = "archive_task"
                 THEN [frozen EXCEPT ![c] = ProjectArchivedOf(Head(arg[c].items))]
                 ELSE frozen
    /\ loc' = [loc EXCEPT ![c] = NoLoc]
    /\ UNCHANGED <<op, started, sequential, config>>

\* ------------------------------------------------- ProjectService.createProject
\* randomUUID(): an id no stored project has
FreshProjectId == CHOOSE id \in ProjectIds \ projectsIndex : TRUE

\* the project createProject builds from its input
NewProject(input, now) ==
    [id |-> "none", name |-> Trim(input.name[1]),
     description |-> TrimOpt(input.description), archived |-> FALSE,
     createdAt |-> now, updatedAt |-> now]

CreateProjectCall(c, input) ==
    /\ projectsIndex # ProjectIds
    /\ \E now \in Times :
        /\ clock' = now
        /\ Begin(c, "createProject", input, "cp_create",
                 [NoLoc EXCEPT !.now = now, !.project = <<NewProject(input, now)>>])

CreateProject(c) ==
    CreateProjectCall(c, [NoArg EXCEPT !.name = Some(<<"n">>)])

\* names as a request body carries them: padded, and nothing but a space
CreateProjectNamed(c) ==
    \E name \in {<<" ", "m", " ">>, <<" ">>}, description \in {None, Some(<<" ", "d">>)} :
        CreateProjectCall(c, [NoArg EXCEPT !.name = Some(name), !.description = description])

CreateProjectWrite(c) ==
    /\ pc[c] = "cp_create"
    /\ projectsIndex # ProjectIds
    /\ LET project == [loc[c].project[1] EXCEPT !.id = FreshProjectId]
       IN /\ projects' = Put(projects, project.id, project)
          /\ projectsIndex' = projectsIndex \cup {project.id}
          /\ Finish(c, OkProject(project))
    /\ UNCHANGED <<tasks, tasksIndex, projectTasks, clock>>

\* ------------------------------------------------- ProjectService.archiveProject
\* a second archiveProject call that archives again
AlreadyArchived_Never(project) == FALSE

\* archiveProject's early return: the project read is already archived
AlreadyArchived(project) == project.archived

\* a cascade that sets the status and forgets the flag
ArchiveTaskRecord_StatusOnly(task, now) ==
    IF task.archived THEN task
    ELSE [task EXCEPT !.status = "archived", !.updatedAt = now]

\* the cascade's rewrite of one task
ArchiveTaskRecord(task, now) ==
    IF task.archived THEN task
    ELSE [task EXCEPT !.archived = TRUE, !.status = "archived", !.updatedAt = now]

ArchiveProject(c) ==
    \E id \in ProjectIds :
        Start(c, "archiveProject", [NoArg EXCEPT !.projectId = id], "ap_get")

\* getByIdOrThrow, the archived check, and the local mutation of the project
ArchiveProjectGet(c) ==
    /\ pc[c] = "ap_get"
    /\ LET found == ProjectGetById(arg[c].projectId)
       IN IF found = <<>>
          THEN Finish(c, Thrown("ProjectDoesNotExist")) /\ UNCHANGED clock
          ELSE IF AlreadyArchived(found[1])
          THEN Finish(c, OkProject(found[1])) /\ UNCHANGED clock
          ELSE \E now \in Times :
                /\ clock' = now
                /\ Goto(c, "ap_save",
                        [loc[c] EXCEPT !.now = now,
                                       !.project = <<[found[1] EXCEPT !.archived = TRUE,
                                                                      !.updatedAt = now]>>])
    /\ UNCHANGED storeVars

ArchiveProjectSave(c) ==
    /\ pc[c] = "ap_save"
    /\ projects' = Put(projects, loc[c].project[1].id, loc[c].project[1])
    /\ Goto(c, "ap_smembers", loc[c])
    /\ UNCHANGED <<projectsIndex, tasks, tasksIndex, projectTasks, clock>>

\* listByProject: smembers, and with no ids listByIds and saveMany return at once
ArchiveProjectSmembers(c) ==
    /\ pc[c] = "ap_smembers"
    /\ LET ids == SetToSeq(projectTasks[loc[c].project[1].id])
       IN IF ids = <<>>
          THEN Finish(c, OkProject(loc[c].project[1]))
          ELSE Goto(c, "ap_mget", [loc[c] EXCEPT !.ids = ids])
    /\ UNCHANGED <<storeVars, clock>>

ArchiveProjectMget(c) ==
    /\ pc[c] = "ap_mget"
    /\ LET Cascade(task) == ArchiveTaskRecord(task, loc[c].now)
           fetched == TaskListByIds(loc[c].ids)
           updatedTasks == [i \in DOMAIN fetched |-> Cascade(fetched[i])]
       IN IF updatedTasks = <<>>
          THEN Finish(c, OkProject(loc[c].project[1]))
          ELSE Goto(c, "ap_saveMany", [loc[c] EXCEPT !.tasks = updatedTasks])
    /\ UNCHANGED <<storeVars, clock>>

ArchiveProjectSaveMany(c) ==
    /\ pc[c] = "ap_saveMany"
    /\ tasks' = TaskSaveMany(tasks, loc[c].tasks)
    /\ Finish(c, OkProject(loc[c].project[1]))
    /\ UNCHANGED <<projects, projectsIndex, tasksIndex, projectTasks, clock>>

\* ------------------------------------------------------ TaskService.createTask
\* an id generator that can repeat an id
FreshTaskId_Repeats == Min(TaskIds)

\* randomUUID(): an id no stored task has
FreshTaskId == Min(TaskIds \ tasksIndex)

\* the task ids a caller may name: those of the stored tasks and one id of no task
TaskIdInputs == tasksIndex \cup (IF tasksIndex = TaskIds THEN {} ELSE {FreshTaskId})

\* no parent, or the first task id (a task that may not exist yet, or of another project)
ParentInputs == {0, 1}

\* the statuses the tests pass to createTask, and none
CreateStatusInputs == {"undef", "archived"}

\* the task createTask builds; its id is drawn when the record is written
NewTask(input, project, now) ==
    [id |-> 0, projectId |-> project.id, title |-> Trim(input.title[1]),
     description |-> TrimOpt(input.description), status |-> "todo",
     priority |-> input.priority, dueDate |-> input.dueDate,
     tags |-> IF input.tags = None THEN <<>> ELSE input.tags[1],
     parentTaskId |-> input.parentTaskId,
     archived |-> FALSE, createdAt |-> now, updatedAt |-> now]

CreateTask(c) ==
    \E pid \in ProjectIds, parent \in ParentInputs, st \in CreateStatusInputs :
        Start(c, "createTask",
              [NoArg EXCEPT !.projectId = pid, !.title = Some(<<"a">>),
                            !.parentTaskId = parent, !.status = st],
              "ct_ensure")

\* the bodies of the tests and of POST /api/tasks: every optional field supplied
\* (a padded title, tags in mixed case), a subtask, and a title of one space
CreateTaskInputs ==
    {[NoArg EXCEPT !.title = Some(<<" ", "b", " ">>), !.description = Some(<<"d">>),
                   !.priority = "high", !.dueDate = "d1",
                   !.tags = Some(<< <<"A">>, <<"a">> >>)],
     [NoArg EXCEPT !.title = Some(<<"c">>), !.parentTaskId = 1],
     [NoArg EXCEPT !.title = Some(<<" ">>)]}

CreateTaskWith(c) ==
    \E pid \in ProjectIds, input \in CreateTaskInputs :
        Start(c, "createTask", [input EXCEPT !.projectId = pid], "ct_ensure")

\* an ensureActiveProject that only checks existence
EnsureActiveProject_ExistsOnly(found) ==
    IF found = <<>> THEN "ProjectDoesNotExist" ELSE "ok"

\* projectService.ensureActiveProject on the result of getById: the error it throws
EnsureActiveProject(found) ==
    IF found = <<>> THEN "ProjectDoesNotExist"
    ELSE IF found[1].archived THEN "ProjectIsArchived"
    ELSE "ok"

CreateTaskEnsure(c) ==
    /\ pc[c] = "ct_ensure"
    /\ LET found == ProjectGetById(arg[c].projectId)
       IN IF EnsureActiveProject(found) # "ok"
          THEN Finish(c, Thrown(EnsureActiveProject(found))) /\ UNCHANGED clock
          ELSE IF arg[c].parentTaskId # 0
          THEN Goto(c, "ct_parent", [loc[c] EXCEPT !.project = found]) /\ UNCHANGED clock
          ELSE \E now \in Times :
                /\ clock' = now
                /\ Goto(c, "ct_create",
                        [loc[c] EXCEPT !.project = found, !.now = now,
                                       !.task = <<NewTask(arg[c], found[1], now)>>])
    /\ UNCHANGED storeVars

\* a parent check that only looks for the task
CheckParent_ExistsOnly(parentTask, projectId) ==
    IF parentTask = <<>> THEN "ParentTaskDoesNotExist" ELSE "ok"

\* createTask's check of the parent it read: the error it throws
CheckParent(parentTask, projectId) ==
    IF parentTask = <<>> THEN "ParentTaskDoesNotExist"
    ELSE IF parentTask[1].projectId # projectId THEN "ParentTaskInOtherProject"
    ELSE "ok"

CreateTaskParent(c) ==
    /\ pc[c] = "ct_parent"
    /\ LET parentTask == TaskGetById(arg[c].parentTaskId)
       IN IF CheckParent(parentTask, arg[c].projectId) # "ok"
          THEN Finish(c, Thrown(CheckParent(parentTask, arg[c].projectId)))
               /\ UNCHANGED clock
          ELSE \E now \in Times :
                /\ clock' = now
                /\ Goto(c, "ct_create",
                        [loc[c] EXCEPT !.now = now,
                                       !.task = <<NewTask(arg[c], loc[c].project[1], now)>>])
    /\ UNCHANGED storeVars

\* taskRepository.create: the record and both index sets in one MULTI
CreateTaskWrite(c) ==
    /\ pc[c] = "ct_create"
    /\ tasksIndex # TaskIds
    /\ LET task == [loc[c].task[1] EXCEPT !.id = FreshTaskId]
       IN /\ tasks' = Put(tasks, task.id, task)
          /\ tasksIndex' = tasksIndex \cup {task.id}
          /\ projectTasks' = [projectTasks EXCEPT ![task.projectId] = @ \cup {task.id}]
          /\ Finish(c, OkTask(task))
    /\ UNCHANGED <<projects, projectsIndex, clock>>

\* ------------------------------------------- TaskService.moveTask / archiveTask
\* a task service that never looks at the project's archived flag
TaskProjectArchived_Unchecked(project) == FALSE

\* moveTask and updateTask refuse a task whose project is archived
TaskProjectArchived(project) == project.archived

\* a moveTask that sets the flag only when archiving
MovedTask_FlagSticks(task, status, now) ==
    [task EXCEPT !.status = status, !.archived = (task.archived \/ status = "archived"),
                 !.updatedAt = now]

MovedTask(task, status, now) ==
    [task EXCEPT !.status = status, !.archived = (status = "archived"),
                 !.updatedAt = now]

MoveTask(c) ==
    \E id \in TaskIdInputs, st \in StatusInputs :
        Start(c, "moveTask", [NoArg EXCEPT !.taskId = id, !.status = st],
              "mt_getTask")

ArchiveTask(c) ==
    \E id \in TaskIdInputs :
        Start(c, "archiveTask", [NoArg EXCEPT !.taskId = id, !.status = "archived"],
              "mt_getTask")

MoveTaskGetTask(c) ==
    /\ pc[c] = "mt_getTask"
    /\ LET task == TaskGetById(arg[c].taskId)
       IN IF task = <<>>
          THEN Finish(c, Thrown("TaskDoesNotExist"))
          ELSE Goto(c, "mt_getProject", [loc[c] EXCEPT !.task = task])
    /\ UNCHANGED <<storeVars, clock>>

MoveTaskGetProject(c) ==
    /\ pc[c] = "mt_getProject"
    /\ LET project == ProjectGetById(loc[c].task[1].projectId)
       IN IF project = <<>>
          THEN Finish(c, Thrown("ProjectDoesNotExist")) /\ UNCHANGED clock
          ELSE IF TaskProjectArchived(project[1])
          THEN Finish(c, Thrown("CannotUpdateArchivedProject")) /\ UNCHANGED clock
          ELSE IF arg[c].status \notin VALID_STATUSES
          THEN Finish(c, Thrown("UnsupportedTaskStatus")) /\ UNCHANGED clock
          ELSE \E now \in Times :
                /\ clock' = now
                /\ Goto(c, "mt_save",
                        [loc[c] EXCEPT !.now = now,
                                       !.task = <<MovedTask(loc[c].task[1], arg[c].status, now)>>])
    /\ UNCHANGED storeVars

MoveTaskSave(c) ==
    /\ pc[c] = "mt_save"
    /\ tasks' = TaskSave(tasks, loc[c].task[1])
    /\ Finish(c, OkTask(loc[c].task[1]))
    /\ UNCHANGED <<projects, projectsIndex, tasksIndex, projectTasks, clock>>

\* ------------------------------------------------------ TaskService.updateTask
\* an updateTask that takes missing tags for an empty list
UpdatedTask_TagsOrEmpty(task, input, now) ==
    [task EXCEPT
        !.title = IF input.title # None THEN Trim(input.title[1]) ELSE task.title,
        !.description = IF input.description # None THEN TrimOpt(input.description)
                        ELSE task.description,
        !.priority = IF input.priority # "undef" THEN input.priority ELSE task.priority,
        !.dueDate = IF input.dueDate # "undef" THEN input.dueDate ELSE task.dueDate,
        !.tags = IF input.tags # None THEN input.tags[1] ELSE <<>>,
        !.updatedAt = now]

\* the record updateTask builds from the task it read: input.status is not read
UpdatedTask(task, input, now) ==
    [task EXCEPT
        !.title = IF input.title # None THEN Trim(input.title[1]) ELSE task.title,
        !.description = IF input.description # None THEN TrimOpt(input.description)
                        ELSE task.description,
        !.priority = IF input.priority # "undef" THEN input.priority ELSE task.priority,
        !.dueDate = IF input.dueDate # "undef" THEN input.dueDate ELSE task.dueDate,
        !.tags = IF input.tags # None THEN input.tags[1] ELSE task.tags,
        !.updatedAt = now]

UpdateTask(c) ==
    \E id \in TaskIdInputs, title \in {None, Some(<<"b">>)} :
        Start(c, "updateTask", [NoArg EXCEPT !.taskId = id, !.title = title],
              "ut_getTask")

\* the inputs of the tests and of PATCH /api/tasks/:id: all five fields, one field,
\* a status, a title of one space
UpdateTaskInputs ==
    {[NoArg EXCEPT !.title = Some(<<"e", " ">>), !.description = Some(<<"f">>),
                   !.priority = "low", !.dueDate = "d2",
                   !.tags = Some(<< <<"g">> >>)],
     [NoArg EXCEPT !.priority = "low"],
     [NoArg EXCEPT !.status = "archived"],
     [NoArg EXCEPT !.title = Some(<<" ">>)]}

UpdateTaskWith(c) ==
    \E id \in TaskIdInputs, input \in UpdateTaskInputs :
        Start(c, "updateTask", [input EXCEPT !.taskId = id], "ut_getTask")

\* ------------------------------------------------------ the update_task tool
\* TaskTitleSchema: min(1) and max(200) on the string received, then sanitizeString
TaskTitleSchemaAccepts(raw) == Len(raw) >= 1 /\ Len(raw) <= 200

TaskTitleSchema(raw) == sanitizeString(raw)

\* TagsSchema: an optional comma-separated string to a list of tags
TagsSchema(raw) ==
    IF raw = None \/ raw[1] = <<>> THEN <<>>
    ELSE LET Kept(tag) == Len(tag) > 0 /\ Len(tag) <= 50
             pieces == SplitCommas(raw[1])
             sanitized == [i \in DOMAIN pieces |-> sanitizeString(pieces[i])]
             kept == SelectSeq(sanitized, Kept)
         IN Dedupe([i \in DOMAIN kept |-> ToLowerCase(kept[i])])

\* the arguments a client sends: a title, a priority, tags, a title of one space
UpdateToolInputs ==
    {[NoArg EXCEPT !.title = Some(<<"b">>)],
     [NoArg EXCEPT !.priority = "high"],
     [NoArg EXCEPT !.rawTags = Some(<<"B", ",", " ", "b">>)],
     [NoArg EXCEPT !.title = Some(<<" ">>)]}

\* the handler's call of updateTask on the parsed arguments: tags is tags || []
UpdateToolArgs(input) ==
    [input EXCEPT !.title = IF input.title = None THEN None
                            ELSE Some(TaskTitleSchema(input.title[1])),
                  !.tags = Some(TagsSchema(input.rawTags)),
                  !.tool = "update_task"]

UpdateTaskTool(c) ==
    \E id \in TaskIdInputs, input \in UpdateToolInputs :
        /\ input.title # None => TaskTitleSchemaAccepts(input.title[1])
        /\ Start(c, "updateTask", UpdateToolArgs([input EXCEPT !.taskId = id]),
                 "ut_getTask")

UpdateTaskGetTask(c) ==
    /\ pc[c] = "ut_getTask"
    /\ LET task == TaskGetById(arg[c].taskId)
       IN IF task = <<>>
          THEN Finish(c, Thrown("TaskDoesNotExist"))
          ELSE Goto(c, "ut_getProject", [loc[c] EXCEPT !.task = task])
    /\ UNCHANGED <<storeVars, clock>>

UpdateTaskGetProject(c) ==
    /\ pc[c] = "ut_getProject"
    /\ LET project == ProjectGetById(loc[c].task[1].projectId)
       IN IF project = <<>>
          THEN Finish(c, Thrown("ProjectDoesNotExist")) /\ UNCHANGED clock
          ELSE IF TaskProjectArchived(project[1])
          THEN Finish(c, Thrown("CannotUpdateArchivedProject")) /\ UNCHANGED clock
          ELSE \E now \in Times :
                /\ clock' = now
                /\ Goto(c, "ut_save",
                        [loc[c] EXCEPT !.now = now,
                                       !.task = <<UpdatedTask(loc[c].task[1], arg[c], now)>>])
    /\ UNCHANGED storeVars

UpdateTaskSave(c) ==
    /\ pc[c] = "ut_save"
    /\ tasks' = TaskSave(tasks, loc[c].task[1])
    /\ Finish(c, OkTask(loc[c].task[1]))
    /\ UNCHANGED <<projects, projectsIndex, tasksIndex, projectTasks, clock>>

\* ------------------------------------------------------- TaskService.listTasks
\* the characters of the model's strings, in the order of their UTF-16 code units
Alphabet ==
    <<" ", "-", "0", "1", "2", "5", ":", "A", "B", "H", "L", "P", "a", "b", "c", "d",
      "e", "f", "g", "h", "i", "j", "l", "m", "n", "o", "p", "r", "s", "t", "u", "x",
      "y">>

\* a < b on strings: the first differing code unit decides, a proper prefix is smaller
RECURSIVE StringLess(_, _)
StringLess(a, b) ==
    IF b = <<>> THEN FALSE
    ELSE IF a = <<>> THEN TRUE
    ELSE IF Head(a) # Head(b)
    THEN LET CharCode(ch) == CHOOSE i \in DOMAIN Alphabet : Alphabet[i] = ch
         IN CharCode(Head(a)) < CharCode(Head(b))
    ELSE StringLess(Tail(a), Tail(b))

\* new Date(dueDate).getTime(), in days
DateValue(d) == CASE d = "d1" -> 1 [] d = "d2" -> 2

\* new Date("9999-12-31")
MaxDate == 9

\* the numeric keys of the switch; an unknown sortBy falls to createdAt
SortKey(task, sortBy) ==
    LET priorityOrder == [low |-> 1, medium |-> 2, high |-> 3]
    IN CASE sortBy = "dueDate" ->
               IF task.dueDate = "undef" THEN MaxDate ELSE DateValue(task.dueDate)
         [] sortBy = "priority" ->
               IF task.priority = "undef" THEN 0 ELSE priorityOrder[task.priority]
         [] OTHER -> task.createdAt

\* aValue < bValue
KeyLess(a, b, sortBy) ==
    IF sortBy = "title" THEN StringLess(ToLowerCase(a.title), ToLowerCase(b.title))
    ELSE SortKey(a, sortBy) < SortKey(b, sortBy)

\* the comparator is positive: a goes after b
GoesAfter_AscOnly(a, b, sortBy, order) == KeyLess(b, a, sortBy)

GoesAfter(a, b, sortBy, order) ==
    IF order = "desc" THEN KeyLess(a, b, sortBy) ELSE KeyLess(b, a, sortBy)

\* Array.prototype.sort is stable: insertion keeps the earlier of two equal keys first
RECURSIVE SortInsert(_, _, _, _)
SortInsert(sorted, task, sortBy, order) ==
    IF sorted = <<>> THEN <<task>>
    ELSE LET last == sorted[Len(sorted)]
         IN IF ~GoesAfter(last, task, sortBy, order) THEN Append(sorted, task)
            ELSE Append(SortInsert(SubSeq(sorted, 1, Len(sorted) - 1), task, sortBy, order),
                        last)

\* sortTasks: a sorted copy, the tasks taken in their order
RECURSIVE SortTasks(_, _, _)
SortTasks(ts, sortBy, order) ==
    IF ts = <<>> THEN <<>>
    ELSE SortInsert(SortTasks(SubSeq(ts, 1, Len(ts) - 1), sortBy, order), ts[Len(ts)],
                    sortBy, order)

\* the archived-visibility filter of the single-project branch
VisibleInProject(ts, includeArchived) ==
    LET NotArchived(task) == ~task.archived
    IN IF includeArchived THEN ts ELSE SelectSeq(ts, NotArchived)

\* an all-projects filter that looks at the task's own flag only
VisibleInAll_OwnFlag(ts, projectMap, includeArchived) ==
    LET Keep(task) == ~task.archived
    IN IF includeArchived THEN ts ELSE SelectSeq(ts, Keep)

\* the archived-visibility filter of the all-projects branch
VisibleInAll(ts, projectMap, includeArchived) ==
    LET Keep(task) ==
            IF task.archived THEN FALSE
            ELSE LET owner == {p \in Range(projectMap) : p.id = task.projectId}
                 IN IF owner = {} THEN FALSE
                    ELSE \A p \in owner : ~p.archived
    IN IF includeArchived THEN ts ELSE SelectSeq(ts, Keep)

\* the options the search_tasks tool passes to listTasks; any other caller's own
ListOptions(a) ==
    IF a.tool = "search_tasks"
    THEN [NoArg EXCEPT !.includeArchived = a.includeArchived]
    ELSE a

\* the status, priority and tags filters
FilterTasks(ts, options) ==
    LET HasStatus(task) == task.status = options.status
        HasPriority(task) == task.priority = options.priority
        HasSomeTag(task) == \E tag \in Range(options.tags[1]) : tag \in Range(task.tags)
        byStatus == IF options.status # "undef" THEN SelectSeq(ts, HasStatus) ELSE ts
        byPriority == IF options.priority # "undef" THEN SelectSeq(byStatus, HasPriority)
                      ELSE byStatus
    IN IF options.tags # None /\ options.tags[1] # <<>>
       THEN SelectSeq(byPriority, HasSomeTag)
       ELSE byPriority

\* a hasSubtasks filter that looks for the children among the tasks it filters
SubtaskFilter_OwnList(ts, allTasks, hasSubtasks) ==
    LET taskIdsWithSubtasks == {ts[i].parentTaskId : i \in DOMAIN ts} \ {0}
        Matches(task) == (task.id \in taskIdsWithSubtasks) = hasSubtasks
    IN SelectSeq(ts, Matches)

\* the hasSubtasks filter, over the result of listAll
SubtaskFilter(ts, allTasks, hasSubtasks) ==
    LET taskIdsWithSubtasks == {allTasks[i].parentTaskId : i \in DOMAIN allTasks} \ {0}
        Matches(task) == (task.id \in taskIdsWithSubtasks) = hasSubtasks
    IN SelectSeq(ts, Matches)

\* sortBy || "createdAt", order || "asc"
SortByOf(options) == IF options.sortBy = "undef" THEN "createdAt" ELSE options.sortBy

OrderOf(options) == IF options.order = "undef" THEN "asc" ELSE options.order

\* ------------------------------------------------------------ search_tasks
\* query.split(/\s+/): the pieces between runs of whitespace
RECURSIVE SplitWords(_, _)
SplitWords(piece, rest) ==
    IF rest = <<>> THEN <<piece>>
    ELSE IF Head(rest) \in Whitespace
    THEN <<piece>> \o SplitWords(<<>>, TrimStart(Tail(rest)))
    ELSE SplitWords(Append(piece, Head(rest)), Tail(rest))

RECURSIVE SplitColons(_, _)
SplitColons(piece, rest) ==
    IF rest = <<>> THEN <<piece>>
    ELSE IF Head(rest) = ":" THEN <<piece>> \o SplitColons(<<>>, Tail(rest))
    ELSE SplitColons(Append(piece, Head(rest)), Tail(rest))

\* part.split(":", 2): the first two pieces; what follows a second colon is dropped
SplitKeyValue(part) == SubSeq(SplitColons(<<>>, part), 1, 2)

StartsWith(s, prefix) ==
    Len(s) >= Len(prefix) /\ SubSeq(s, 1, Len(prefix)) = prefix

Substring(s, from) == SubSeq(s, from + 1, Len(s))

Includes(s, sub) ==
    \E i \in 0..(Len(s) - Len(sub)) : SubSeq(s, i + 1, i + Len(sub)) = sub

\* the value of a priority: token, when it is one of the three names
PriorityNamed(value) ==
    CASE value = <<"l", "o", "w">> -> "low"
      [] value = <<"m", "e", "d", "i", "u", "m">> -> "medium"
      [] value = <<"h", "i", "g", "h">> -> "high"
      [] OTHER -> "undef"

\* the value of a status: token, when it is one of the four names
StatusNamed(value) ==
    CASE value = <<"t", "o", "d", "o">> -> "todo"
      [] value = <<"p", "e", "n", "d", "i", "n", "g">> -> "pending"
      [] value = <<"c", "o", "m", "p", "l", "e", "t", "e", "d">> -> "completed"
      [] value = <<"a", "r", "c", "h", "i", "v", "e", "d">> -> "archived"
      [] OTHER -> "undef"

\* const filters = {}: the empty string stands for a field that is not set, both
\* are falsy where the handler tests them
NoFilters ==
    [text |-> <<>>, priority |-> "undef", status |-> "undef", dueBefore |-> <<>>,
     dueAfter |-> <<>>, projectName |-> <<>>]

\* a loop body that takes every token as a word of the text
WithPart_AllText(filters, part) ==
    [filters EXCEPT !.text = filters.text \o <<" ">> \o part]

\* the body of the loop over the parts
WithPart(filters, part) ==
    IF Includes(part, <<":">>)
    THEN LET kv == SplitKeyValue(part)
             key == ToLowerCase(kv[1])
             value == kv[2]
         IN CASE key = <<"p", "r", "i", "o", "r", "i", "t", "y">> ->
                    IF PriorityNamed(ToLowerCase(value)) # "undef"
                    THEN [filters EXCEPT !.priority = PriorityNamed(ToLowerCase(value))]
                    ELSE filters
              [] key = <<"s", "t", "a", "t", "u", "s">> ->
                    IF StatusNamed(ToLowerCase(value)) # "undef"
                    THEN [filters EXCEPT !.status = StatusNamed(ToLowerCase(value))]
                    ELSE filters
              [] key = <<"d", "u", "e">> ->
                    IF StartsWith(value, <<"b", "e", "f", "o", "r", "e", ":">>)
                    THEN [filters EXCEPT !.dueBefore = Substring(value, 7)]
                    ELSE IF StartsWith(value, <<"a", "f", "t", "e", "r", ":">>)
                    THEN [filters EXCEPT !.dueAfter = Substring(value, 6)]
                    ELSE filters
              [] key = <<"p", "r", "o", "j", "e", "c", "t">> ->
                    [filters EXCEPT !.projectName = value]
              [] OTHER -> filters
    ELSE [filters EXCEPT !.text = filters.text \o <<" ">> \o part]

RECURSIVE WithParts(_, _)
WithParts(filters, parts) ==
    IF parts = <<>> THEN filters
    ELSE WithParts(WithPart(filters, Head(parts)), Tail(parts))

parseSearchQuery(query) ==
    LET filters == WithParts(NoFilters, SplitWords(<<>>, query))
    IN [filters EXCEPT !.text = Trim(filters.text)]

\* new Date(text).getTime() in days; none for an invalid date
ParseDate(text) ==
    IF text = <<"2", "0", "2", "5", "-", "1", "2", "-", "0", "1">> THEN Some(3)
    ELSE IF text = <<"d", "1">> THEN Some(1)
    ELSE IF text = <<"d", "2">> THEN Some(2)
    ELSE None

\* the two due date tests of the filter callback
DueMatches(task, filters) ==
    /\ (filters.dueBefore # <<>> /\ task.dueDate # "undef") =>
            ~(/\ ParseDate(filters.dueBefore) # None
              /\ DateValue(task.dueDate) >= ParseDate(filters.dueBefore)[1])
    /\ (filters.dueAfter # <<>> /\ task.dueDate # "undef") =>
            ~(/\ ParseDate(filters.dueAfter) # None
              /\ DateValue(task.dueDate) <= ParseDate(filters.dueAfter)[1])

\* the text test of the filter callback
TextMatches(task, filters) ==
    filters.text # <<>> =>
        \/ Includes(ToLowerCase(task.title), ToLowerCase(filters.text))
        \/ /\ task.description # None
           /\ task.description[1] # <<>>
           /\ Includes(ToLowerCase(task.description[1]), ToLowerCase(filters.text))

\* the filter callback of the handler
SearchMatches(task, filters) ==
    /\ TextMatches(task, filters)
    /\ filters.priority # "undef" => task.priority = filters.priority
    /\ filters.status # "undef" => task.status = filters.status
    /\ DueMatches(task, filters)

\* SearchQuerySchema: val ? sanitizeString(val) : val
SearchQuerySchema(raw) ==
    IF raw = None \/ raw[1] = <<>> THEN raw ELSE Some(sanitizeString(raw[1]))

\* the handler after listTasks has returned allTasks
SearchTasks(allTasks, input) ==
    LET query == SearchQuerySchema(input.query)
        searchFilters == parseSearchQuery(query[1])
        Passes(task) == SearchMatches(task, searchFilters)
        byQuery == IF query # None /\ query[1] # <<>> THEN SelectSeq(allTasks, Passes)
                   ELSE allTasks
        tags == TagsSchema(input.rawTags)
        HasSomeTag(task) == \E tag \in Range(tags) : tag \in Range(task.tags)
        byTags == IF tags # <<>> THEN SelectSeq(byQuery, HasSomeTag) ELSE byQuery
    IN SortTasks(byTags, SortByOf(input), OrderOf(input))

\* ------------------------------------------------- the end of TaskService.listTasks
\* return sortTasks(...); the search_tasks handler goes on from there
ListReturn(c, ts) ==
    LET options == ListOptions(arg[c])
        sorted == SortTasks(ts, SortByOf(options), OrderOf(options))
    IN Finish(c, OkList(IF arg[c].tool = "search_tasks"
                        THEN SearchTasks(sorted, arg[c])
                        ELSE sorted))

\* the filters on the visible tasks; hasSubtasks awaits listAll first
ListFiltered(c, visible) ==
    LET options == ListOptions(arg[c])
        ts == FilterTasks(visible, options)
    IN IF options.hasSubtasks = None
       THEN ListReturn(c, ts)
       ELSE Goto(c, "lt_allIndex", [loc[c] EXCEPT !.tasks = ts, !.ids = <<>>])

ListTasks(c) ==
    \E pid \in ProjectIds \cup {"none"}, incl \in BOOLEAN, st \in {"undef", "todo"} :
        Start(c, "listTasks",
              [NoArg EXCEPT !.projectId = pid, !.includeArchived = incl, !.status = st],
              IF pid # "none" THEN "lt_getProject"
              ELSE IF ~incl THEN "lt_projectsIndex" ELSE "lt_tasksIndex")

\* listTasks({includeArchived: true}): every stored task
ListTasksEverything(c) ==
    Start(c, "listTasks", [NoArg EXCEPT !.includeArchived = TRUE], "lt_tasksIndex")

ListTasksGetProject(c) ==
    /\ pc[c] = "lt_getProject"
    /\ LET project == ProjectGetById(arg[c].projectId)
       IN IF project = <<>>
          THEN Finish(c, Thrown("ProjectDoesNotExist"))
          ELSE IF project[1].archived /\ ~arg[c].includeArchived
          THEN Finish(c, OkList(<<>>))
          ELSE Goto(c, "lt_projectTasks", [loc[c] EXCEPT !.project = project])
    /\ UNCHANGED <<storeVars, clock>>

\* listByProject: smembers of the project's task set
ListTasksProjectTasks(c) ==
    /\ pc[c] = "lt_projectTasks"
    /\ LET ids == SetToSeq(projectTasks[loc[c].project[1].id])
       IN IF ids = <<>>
          THEN ListFiltered(c, <<>>)
          ELSE Goto(c, "lt_mget", [loc[c] EXCEPT !.ids = ids])
    /\ UNCHANGED <<storeVars, clock>>

\* projectService.listProjects({includeArchived: true}): smembers, then mget
ListTasksProjectsIndex(c) ==
    /\ pc[c] = "lt_projectsIndex"
    /\ IF projectsIndex = {}
       THEN Goto(c, "lt_tasksIndex", [loc[c] EXCEPT !.projectMap = <<>>])
       ELSE Goto(c, "lt_projectsMget", [loc[c] EXCEPT !.ids = projectsIndex])
    /\ UNCHANGED <<storeVars, clock>>

ListTasksProjectsMget(c) ==
    /\ pc[c] = "lt_projectsMget"
    /\ LET present == {id \in loc[c].ids : id \in DOMAIN projects}
           found == {projects[id] : id \in present}
           byCreatedAt == CHOOSE sq \in [1..Cardinality(found) -> found] :
                            /\ Range(sq) = found
                            /\ \A i, j \in DOMAIN sq : i < j => sq[i].createdAt <= sq[j].createdAt
       IN Goto(c, "lt_tasksIndex", [loc[c] EXCEPT !.projectMap = byCreatedAt, !.ids = <<>>])
    /\ UNCHANGED <<storeVars, clock>>

\* listAll: smembers of tasks:index
ListTasksTasksIndex(c) ==
    /\ pc[c] = "lt_tasksIndex"
    /\ LET ids == SetToSeq(tasksIndex)
       IN IF ids = <<>>
          THEN ListFiltered(c, <<>>)
          ELSE Goto(c, "lt_mget", [loc[c] EXCEPT !.ids = ids])
    /\ UNCHANGED <<storeVars, clock>>

\* listByIds: mget, then the visibility filter of the branch taken, filters, sort
ListTasksMget(c) ==
    /\ pc[c] = "lt_mget"
    /\ LET fetched == TaskListByIds(loc[c].ids)
           visible == IF arg[c].projectId # "none"
                      THEN VisibleInProject(fetched, arg[c].includeArchived)
                      ELSE VisibleInAll(fetched, loc[c].projectMap, arg[c].includeArchived)
       IN ListFiltered(c, visible)
    /\ UNCHANGED <<storeVars, clock>>

\* listAll of the hasSubtasks filter: smembers of tasks:index
ListTasksAllIndex(c) ==
    /\ pc[c] = "lt_allIndex"
    /\ LET ids == SetToSeq(tasksIndex)
       IN IF ids = <<>>
          THEN ListReturn(c, SubtaskFilter(loc[c].tasks, <<>>, arg[c].hasSubtasks[1]))
          ELSE Goto(c, "lt_allMget", [loc[c] EXCEPT !.ids = ids])
    /\ UNCHANGED <<storeVars, clock>>

\* listAll of the hasSubtasks filter: mget, the filter, the sort
ListTasksAllMget(c) ==
    /\ pc[c] = "lt_allMget"
    /\ LET allTasks == TaskListByIds(loc[c].ids)
       IN ListReturn(c, SubtaskFilter(loc[c].tasks, allTasks, arg[c].hasSubtasks[1]))
    /\ UNCHANGED <<storeVars, clock>>

\* ------------------------------------------------------------ specification
\* The store outlives the service: it starts as an earlier createProject call left it.
InitialProject ==
    [id |-> "p1", name |-> <<"n">>, description |-> None, archived |-> FALSE,
     createdAt |-> 0, updatedAt |-> 0]

InitStore ==
    /\ projects = [id \in {"p1"} |-> InitialProject]
    /\ projectsIndex = {"p1"}
    /\ tasks = <<>>
    /\ tasksIndex = {}
    /\ projectTasks = [p \in ProjectIds |-> {}]
    /\ clock = 0
    /\ pc = [c \in Calls |-> "idle"]
    /\ op = [c \in Calls |-> "none"]
    /\ arg = [c \in Calls |-> NoArg]
    /\ loc = [c \in Calls |-> NoLoc]
    /\ result = [c \in Calls |-> NoResult]
    /\ frozen = [c \in Calls |-> FALSE]
    /\ started = 0

\* requests arrive while others are in flight; no credentials are configured
Init == InitStore /\ sequential = FALSE /\ config = NoAuth

\* one caller, awaiting each call before the next
InitSeq == InitStore /\ sequential = TRUE /\ config = NoAuth

Step(c) ==
    \/ CreateProjectWrite(c)
    \/ ArchiveProjectGet(c)
    \/ ArchiveProjectSave(c)
    \/ ArchiveProjectSmembers(c)
    \/ ArchiveProjectMget(c)
    \/ ArchiveProjectSaveMany(c)
    \/ CreateTaskEnsure(c)
    \/ CreateTaskParent(c)
    \/ CreateTaskWrite(c)
    \/ MoveTaskGetTask(c)
    \/ MoveTaskGetProject(c)
    \/ MoveTaskSave(c)
    \/ UpdateTaskGetTask(c)
    \/ UpdateTaskGetProject(c)
    \/ UpdateTaskSave(c)
    \/ ListTasksGetProject(c)
    \/ ListTasksProjectTasks(c)
    \/ ListTasksProjectsIndex(c)
    \/ ListTasksProjectsMget(c)
    \/ ListTasksTasksIndex(c)
    \/ ListTasksMget(c)

Call(c) ==
    \/ CreateProject(c)
    \/ ArchiveProject(c)
    \/ CreateTask(c)
    \/ MoveTask(c)
    \/ ArchiveTask(c)
    \/ UpdateTask(c)
    \/ ListTasks(c)

Next ==
    \/ \E c \in Calls : Call(c)
    \/ \E c \in Calls : Step(c)

Spec == Init /\ [][Next]_vars

SpecSeq == InitSeq /\ [][Next]_vars

\* The process exits (a signal, a fatal error) while calls are suspended at an
\* await: the calls are gone, the store keeps what was written. The result keeps
\* the await each call died at.
Crash ==
    /\ \E c \in Calls : ~Idle(c)
    /\ pc' = [c \in Calls |-> IF Idle(c) THEN pc[c] ELSE "done"]
    /\ result' = [c \in Calls |->
                    IF Idle(c) THEN result[c]
                    ELSE [NoResult EXCEPT !.kind = "crashed", !.error = pc[c]]]
    /\ loc' = [c \in Calls |-> IF Idle(c) THEN loc[c] ELSE NoLoc]
    /\ UNCHANGED <<storeVars, clock, op, arg, started, frozen, sequential, config>>

NextCrash ==
    \/ Next
    \/ Crash

\* one caller, and a process that may die and be restarted
SpecCrash == InitSeq /\ [][NextCrash]_vars

\* The calls that write the descriptive fields, with every kind of input, the
\* update_task tool, and a listing of everything stored.
CallWith(c) ==
    \/ CreateProjectNamed(c)
    \/ CreateTaskWith(c)
    \/ UpdateTaskWith(c)
    \/ UpdateTaskTool(c)
    \/ ListTasksEverything(c)

StepWith(c) ==
    \/ CreateProjectWrite(c)
    \/ CreateTaskEnsure(c)
    \/ CreateTaskParent(c)
    \/ CreateTaskWrite(c)
    \/ UpdateTaskGetTask(c)
    \/ UpdateTaskGetProject(c)
    \/ UpdateTaskSave(c)
    \/ ListTasksTasksIndex(c)
    \/ ListTasksMget(c)

NextFields ==
    \/ \E c \in Calls : CallWith(c)
    \/ \E c \in Calls : StepWith(c)

\* one caller of createProject, createTask, updateTask and listTasks
SpecFields == InitSeq /\ [][NextFields]_vars

\* ------------------------------------------------- listings and searches
\* sortBy and order as the callers pass them
SortInputs ==
    {<<"undef", "undef">>, <<"createdAt", "desc">>, <<"dueDate", "asc">>,
     <<"dueDate", "desc">>, <<"priority", "desc">>, <<"title", "asc">>}

\* status, priority and tags as the callers pass them: none, each alone, all three
FilterInputs ==
    {<<"undef", "undef", None>>, <<"todo", "undef", None>>, <<"undef", "high", None>>,
     <<"undef", "undef", Some(<< <<"a">> >>)>>, <<"todo", "high", Some(<< <<"a">> >>)>>}

\* listTasks(options) with every option
ListTasksWith(c) ==
    \E pid \in {"none", "p1"}, incl \in BOOLEAN, fi \in FilterInputs,
       hs \in {None, Some(TRUE), Some(FALSE)}, so \in SortInputs :
        Start(c, "listTasks",
              [NoArg EXCEPT !.projectId = pid, !.includeArchived = incl,
                            !.status = fi[1], !.priority = fi[2], !.tags = fi[3],
                            !.hasSubtasks = hs, !.sortBy = so[1], !.order = so[2]],
              IF pid # "none" THEN "lt_getProject"
              ELSE IF ~incl THEN "lt_projectsIndex" ELSE "lt_tasksIndex")

\* "priority:high due:before:2025-12-01 launch"
QueryHighBeforeLaunch ==
    <<"p", "r", "i", "o", "r", "i", "t", "y", ":", "h", "i", "g", "h", " ",
      "d", "u", "e", ":", "b", "e", "f", "o", "r", "e", ":",
      "2", "0", "2", "5", "-", "1", "2", "-", "0", "1", " ",
      "l", "a", "u", "n", "c", "h">>

\* "due:before:d2" and "due:after:d1", d1 and d2 standing for two ISO dates
QueryDueBefore == <<"d", "u", "e", ":", "b", "e", "f", "o", "r", "e", ":", "d", "2">>

QueryDueAfter == <<"d", "u", "e", ":", "a", "f", "t", "e", "r", ":", "d", "1">>

\* "x:y", and "x:y Priority:High"
QueryUnknownKey == <<"x", ":", "y">>

QueryUnknownAndPriority ==
    QueryUnknownKey \o <<" ", "P", "r", "i", "o", "r", "i", "t", "y", ":", "H", "i", "g", "h">>

\* "project:m"
QueryProject == <<"p", "r", "o", "j", "e", "c", "t", ":", "m">>

\* the queries of the callers: absent, blank, a bare word, each recognized key, an
\* unknown key, and keys in capitals
SearchQueries ==
    {None,
     Some(<<" ">>),
     Some(<<"b">>),
     Some(QueryHighBeforeLaunch),
     Some(QueryDueBefore),
     Some(QueryDueAfter),
     Some(<<"s", "t", "a", "t", "u", "s", ":", "p", "e", "n", "d", "i", "n", "g">>),
     Some(QueryProject),
     Some(QueryUnknownKey),
     Some(<<":">>),
     Some(QueryUnknownAndPriority)}

\* the search_tasks tool: listTasks({includeArchived}), then the query, the tags
\* and the sort
SearchTasksTool(c) ==
    \E q \in SearchQueries, raw \in {None, Some(<<"a">>)}, incl \in BOOLEAN,
       so \in {<<"undef", "undef">>, <<"title", "desc">>} :
        Start(c, "searchTasks",
              [NoArg EXCEPT !.tool = "search_tasks", !.query = q, !.rawTags = raw,
                            !.includeArchived = incl, !.sortBy = so[1], !.order = so[2]],
              IF ~incl THEN "lt_projectsIndex" ELSE "lt_tasksIndex")

\* a second project, as createProject({name: "m"}) leaves it
SecondProject == [NewProject([NoArg EXCEPT !.name = Some(<<"m">>)], 0) EXCEPT !.id = "p2"]

\* Three tasks as createTask leaves them: a task with a subtask, the subtask
\* (moved to pending or archived since), and a task of the second project.
StoredTasks(due, status) ==
    LET first == [NewTask([NoArg EXCEPT
                              !.title = Some(<<"L", "a", "u", "n", "c", "h", " ",
                                               "p", "r", "e", "p">>),
                              !.priority = "high", !.dueDate = due],
                          InitialProject, 0) EXCEPT !.id = 1]
        second == [NewTask([NoArg EXCEPT
                              !.title = Some(<<"b">>), !.description = Some(<<"a", "b">>),
                              !.priority = "low", !.dueDate = "d2",
                              !.tags = Some(<< <<"a">> >>), !.parentTaskId = 1],
                           InitialProject, 0) EXCEPT !.id = 2]
        third == [NewTask([NoArg EXCEPT
                              !.title = Some(<<"A">>), !.priority = "high",
                              !.dueDate = "d1", !.tags = Some(<< <<"a">>, <<"b">> >>)],
                          SecondProject, 1) EXCEPT !.id = 3]
    IN <<first, MovedTask(second, status, 1), third>>

\* The store as earlier calls left it, and no call in flight.
InitQuery ==
    /\ projects = [id \in {"p1", "p2"} |->
                     IF id = "p1" THEN InitialProject ELSE SecondProject]
    /\ projectsIndex = {"p1", "p2"}
    /\ \E due \in {"undef", "d1"}, status \in {"pending", "archived"} :
            tasks = StoredTasks(due, status)
    /\ tasksIndex = {1, 2, 3}
    /\ projectTasks = [p \in ProjectIds |-> IF p = "p1" THEN {1, 2} ELSE {3}]
    /\ clock = 1
    /\ pc = [c \in Calls |-> "idle"]
    /\ op = [c \in Calls |-> "none"]
    /\ arg = [c \in Calls |-> NoArg]
    /\ loc = [c \in Calls |-> NoLoc]
    /\ result = [c \in Calls |-> NoResult]
    /\ frozen = [c \in Calls |-> FALSE]
    /\ started = 0
    /\ sequential = TRUE
    /\ config = NoAuth

NextQuery ==
    \/ \E c \in Calls : ListTasksWith(c)
    \/ \E c \in Calls : SearchTasksTool(c)
    \/ \E c \in Calls : ListTasksGetProject(c)
    \/ \E c \in Calls : ListTasksProjectTasks(c)
    \/ \E c \in Calls : ListTasksProjectsIndex(c)
    \/ \E c \in Calls : ListTasksProjectsMget(c)
    \/ \E c \in Calls : ListTasksTasksIndex(c)
    \/ \E c \in Calls : ListTasksMget(c)
    \/ \E c \in Calls : ListTasksAllIndex(c)
    \/ \E c \in Calls : ListTasksAllMget(c)

\* one caller of listTasks and of the search_tasks tool over a store at rest
SpecQuery == InitQuery /\ [][NextQuery]_vars

\* ------------------------------------------------------------ the MCP tools
\* the id a text names: getById reads project:<text>, which holds a record only
\* when the text is a stored id
ProjectKeyOf(text) ==
    CASE text = <<"p", "1">> -> "p1" [] text = <<"p", "2">> -> "p2" [] OTHER -> "none"

\* ProjectNamesStringSchema: split on commas, sanitize, drop the empty names
ProjectNamesStringSchema(raw) ==
    LET NonEmpty(n) == n # <<>>
        pieces == SplitCommas(raw)
    IN SelectSeq([i \in DOMAIN pieces |-> sanitizeString(pieces[i])], NonEmpty)

\* archive_project with one name: archiveProject(name), the name used as the id.
\* The callers pass the name of the stored project, or the text of its id.
ArchiveProjectTool(c) ==
    \E raw \in {<<"n">>, <<" ", "p", "1">>} :
        LET name == ProjectNamesStringSchema(raw)[1]
        IN Start(c, "archiveProject",
                 [NoArg EXCEPT !.projectId = ProjectKeyOf(name), !.name = Some(name),
                               !.tool = "archive_project"],
                 "ap_get")

\* TaskTitlesSchema: split on commas, sanitize, drop the empty titles
TaskTitlesSchema(raw) ==
    LET NonEmpty(t) == t # <<>>
        pieces == SplitCommas(raw)
    IN SelectSeq([i \in DOMAIN pieces |-> sanitizeString(pieces[i])], NonEmpty)

\* create_task: the project the lookup by name found is stored and not archived;
\* then createTask for the first title, the other titles waiting in the loop
CreateTaskTool(c) ==
    \E pid \in DOMAIN projects, raw \in {<<"a">>, <<"a", ",", " ", "b">>} :
        LET titleList == TaskTitlesSchema(raw)
        IN /\ ~projects[pid].archived
           /\ Start(c, "createTask",
                    [NoArg EXCEPT !.projectId = pid, !.tool = "create_task",
                                  !.title = Some(Head(titleList)),
                                  !.items = Tail(titleList)],
                    "ct_ensure")

\* taskIds.split(",").map(trim).filter(id => id); an id is the text of a number,
\* and 0 stands for a text that names no task
TaskIdsOf(raw) ==
    LET NonEmpty(t) == t # <<>>
        TaskIdOfText(text) ==
            CASE text = <<"1">> -> 1 [] text = <<"2">> -> 2 [] text = <<"3">> -> 3
              [] OTHER -> 0
        pieces == SplitCommas(raw)
        ids == SelectSeq([i \in DOMAIN pieces |-> Trim(pieces[i])], NonEmpty)
    IN [i \in DOMAIN ids |-> TaskIdOfText(ids[i])]

\* archive_task: archiveTask for the first id, the other ids waiting in the loop
ArchiveTaskTool(c) ==
    \E raw \in {<<"1">>, <<"1", ",", "2">>, <<"1", ",", " ", "x">>, <<"x", ",", "1">>} :
        LET ids == TaskIdsOf(raw)
        IN Start(c, "archiveTask",
                 [NoArg EXCEPT !.taskId = Head(ids), !.status = "archived",
                               !.tool = "archive_task", !.items = Tail(ids)],
                 "mt_getTask")

NextTools ==
    \/ \E c \in Calls : ArchiveProjectTool(c)
    \/ \E c \in Calls : CreateTaskTool(c)
    \/ \E c \in Calls : ArchiveTaskTool(c)
    \/ \E c \in Calls : ArchiveProjectGet(c)
    \/ \E c \in Calls : ArchiveProjectSave(c)
    \/ \E c \in Calls : ArchiveProjectSmembers(c)
    \/ \E c \in Calls : ArchiveProjectMget(c)
    \/ \E c \in Calls : ArchiveProjectSaveMany(c)
    \/ \E c \in Calls : CreateTaskEnsure(c)
    \/ \E c \in Calls : CreateTaskWrite(c)
    \/ \E c \in Calls : MoveTaskGetTask(c)
    \/ \E c \in Calls : MoveTaskGetProject(c)
    \/ \E c \in Calls : MoveTaskSave(c)

\* tool calls that arrive while others are in flight
SpecTools == Init /\ [][NextTools]_vars

\* ------------------------------------------------------------ authentication
\* `Basic ${base64(user:password)}`
buildExpectedHeader(user, password) == <<"Basic", user, password>>

\* ensureAuthorized: the error it throws
ensureAuthorized(cfg, providedHeader) ==
    IF cfg.authUser = None \/ cfg.authPassword = None THEN "ok"
    ELSE IF providedHeader = None THEN "MissingCredentials"
    ELSE IF providedHeader[1] # buildExpectedHeader(cfg.authUser[1], cfg.authPassword[1])
    THEN "InvalidCredentials"
    ELSE "ok"

\* the Authorization header of a request: none, the right one, a wrong password
HeaderInputs ==
    {None, Some(buildExpectedHeader("u", "p")), Some(buildExpectedHeader("u", "x"))}

\* A handler throws before its first await: the call ends where it started.
Reject(c, o, a, e) ==
    /\ Idle(c)
    /\ c = FreeCall
    /\ sequential => \A d \in Calls : Idle(d)
    /\ started < MaxOps
    /\ started' = started + 1
    /\ pc' = [d \in Calls |-> IF d = c THEN "done" ELSE IF Idle(d) THEN "idle" ELSE pc[d]]
    /\ op' = [d \in Calls |-> IF d = c THEN o ELSE IF Idle(d) THEN "none" ELSE op[d]]
    /\ arg' = [d \in Calls |-> IF d = c THEN a ELSE IF Idle(d) THEN NoArg ELSE arg[d]]
    /\ loc' = [loc EXCEPT ![c] = NoLoc]
    /\ result' = [d \in Calls |->
                    IF d = c THEN Thrown(e) ELSE IF Idle(d) THEN NoResult ELSE result[d]]
    /\ frozen' = [d \in Calls |-> IF d = c \/ Idle(d) THEN FALSE ELSE frozen[d]]
    /\ UNCHANGED <<storeVars, clock, sequential, config>>

\* a tool handler: guardAuth(metadataFromContext(extra)), then the service call
GuardedCreateTask(c) ==
    \E header \in HeaderInputs :
        LET input == [NoArg EXCEPT !.projectId = "p1", !.title = Some(<<"a">>),
                                   !.entry = "tool", !.header = header]
        IN IF ensureAuthorized(config, header) # "ok"
           THEN Reject(c, "createTask", input, ensureAuthorized(config, header))
           ELSE Start(c, "createTask", input, "ct_ensure")

\* POST /api/tasks: taskService.createTask(req.body)
RestCreateTask(c) ==
    \E header \in HeaderInputs :
        Start(c, "createTask",
              [NoArg EXCEPT !.projectId = "p1", !.title = Some(<<"a">>),
                            !.entry = "rest", !.header = header],
              "ct_ensure")

\* the environment sets both variables, one of them, or none
InitAuth ==
    /\ InitStore
    /\ sequential = TRUE
    /\ config \in [authUser : {None, Some("u")}, authPassword : {None, Some("p")}]

NextAuth ==
    \/ \E c \in Calls : GuardedCreateTask(c)
    \/ \E c \in Calls : RestCreateTask(c)
    \/ \E c \in Calls : CreateTaskEnsure(c)
    \/ \E c \in Calls : CreateTaskWrite(c)

\* one caller of the create_task tool and of the REST API
SpecAuth == InitAuth /\ [][NextAuth]_vars

\* ------------------------------------------------------------------ claims
Done(c, o) == pc[c] = "done" /\ op[c] = o
Ok(c) == result[c].kind = "ok"
Failed(c, e) == result[c].kind = "error" /\ result[c].error = e
TasksOf(projectId) == {t \in DOMAIN tasks : tasks[t].projectId = projectId}
ArchivedTask(task) == task.archived /\ task.status = "archived"
TheStatuses == {"todo", "pending", "completed", "archived"}
Moves(c) == pc[c] # pc'[c] /\ ~Idle(c)

\* C1: when archiveProject(id) completes, every task whose projectId is id has
\* archived = TRUE and status = "archived", whatever its status was before
\* (each call awaited before the next: SpecSeq).
C1_ArchiveCascades ==
    \A c \in Calls :
        Done(c, "archiveProject") /\ Ok(c) =>
            \A t \in TasksOf(arg[c].projectId) : ArchivedTask(tasks[t])

\* an archiveProject call that found the project active has returned, and the
\* project holds a task stamped by the cascade
C1_Witness ==
    \E c \in Calls :
        /\ Done(c, "archiveProject") /\ Ok(c) /\ ~frozen[c]
        /\ \E t \in TasksOf(arg[c].projectId) :
            /\ ArchivedTask(tasks[t])
            /\ tasks[t].updatedAt = result[c].project[1].updatedAt
            /\ tasks[t].updatedAt > tasks[t].createdAt

\* C2: whenever no archiveProject call is in progress, every task of an archived
\* project is archived, also when createTask, moveTask or updateTask calls
\* interleave with the archiveProject call.
C2_ArchivedProjectHasArchivedTasks ==
    (\A c \in Calls : op[c] = "archiveProject" => Idle(c)) =>
        \A t \in DOMAIN tasks : ProjectArchivedOf(t) => tasks[t].archived

\* C3: a second archiveProject(P.id) returns the project as stored and writes
\* nothing: it ends at its first read, with projects, tasks and indexes unchanged.
C3_ArchiveIdempotent ==
    [][\A c \in Calls :
          (/\ op[c] = "archiveProject" /\ Moves(c)
           /\ frozen[c] \/ (pc[c] = "ap_get" /\ ProjectArchived(arg[c].projectId))) =>
              /\ pc[c] = "ap_get"
              /\ pc'[c] = "done"
              /\ result'[c] = OkProject(projects[arg[c].projectId])
              /\ UNCHANGED storeVars]_vars

\* an archiveProject call on a project that was archived when it started has returned
C3_Witness ==
    \E c \in Calls : Done(c, "archiveProject") /\ frozen[c] /\ Ok(c)

\* C4: a listTasks call with includeArchived false, with or without a projectId,
\* returns no task that is archived and no task whose project is archived or
\* missing.
C4_ListHidesArchived ==
    \A c \in Calls :
        Done(c, "listTasks") /\ Ok(c) /\ ~arg[c].includeArchived =>
            \A i \in DOMAIN result[c].list :
                /\ ~result[c].list[i].archived
                /\ result[c].list[i].projectId \in DOMAIN projects
                /\ ~ProjectArchived(result[c].list[i].projectId)

\* a listing over all projects has returned while the store holds a task that is
\* not archived itself but whose project is
C4_Witness ==
    \E c \in Calls :
        /\ Done(c, "listTasks") /\ Ok(c) /\ ~arg[c].includeArchived
        /\ arg[c].projectId = "none"
        /\ \E t \in DOMAIN tasks : ~tasks[t].archived /\ ProjectArchivedOf(t)

\* C5: every stored task has archived = (status = "archived"), under every
\* interleaving of createTask, updateTask, moveTask, archiveTask and archiveProject.
C5_ArchivedIffStatus ==
    \A t \in DOMAIN tasks : tasks[t].archived <=> (tasks[t].status = "archived")

\* a task that was moved out of archived by one call while another call on the
\* same task was in flight
C5_Witness ==
    /\ Done("c1", "archiveTask") /\ Ok("c1")
    /\ Done("c2", "moveTask") /\ Ok("c2")
    /\ arg["c1"].taskId = arg["c2"].taskId
    /\ tasks[arg["c2"].taskId].status = "completed"
    /\ ~tasks[arg["c2"].taskId].archived

\* C6: updateTask, moveTask and archiveTask called on a task whose project is
\* archived fail with the archived-project error and never save; and a moveTask to
\* "archived" that succeeds returns the task with archived = TRUE.
C6_NoMutationUnderArchivedProject ==
    \A c \in Calls :
        /\ op[c] \in TaskMutators /\ frozen[c] =>
              /\ pc[c] \notin {"mt_save", "ut_save"}
              /\ pc[c] = "done" => Failed(c, "CannotUpdateArchivedProject")
        /\ op[c] \in {"moveTask", "archiveTask"} /\ pc[c] = "done" /\ Ok(c)
              /\ arg[c].status = "archived" => result[c].task[1].archived

\* an updateTask on a task of an archived project has failed
C6_Witness ==
    \E c \in Calls :
        /\ Done(c, "updateTask") /\ frozen[c]
        /\ Failed(c, "CannotUpdateArchivedProject")
        /\ arg[c].taskId \in DOMAIN tasks

\* C7 as stated: no step takes a task's archived flag from TRUE to FALSE.
C7_NeverUnarchived ==
    [][\A t \in DOMAIN tasks : tasks[t].archived => tasks'[t].archived]_vars

\* C7 amended: a task's archived flag goes from TRUE to FALSE only by the save of
\* a moveTask to a status other than archived or the save of an updateTask, on
\* that task; createTask, archiveTask and archiveProject never unarchive a task.
C7_UnarchivedOnlyBySave ==
    [][\A t \in DOMAIN tasks :
          tasks[t].archived /\ ~tasks'[t].archived =>
              \E c \in Calls :
                  /\ arg[c].taskId = t
                  /\ pc'[c] = "done"
                  /\ \/ pc[c] = "mt_save" /\ op[c] = "moveTask" /\ arg[c].status # "archived"
                     \/ pc[c] = "ut_save" /\ op[c] = "updateTask"]_vars

\* a task archived by archiveTask and then moved back to todo by a moveTask
C7_Witness ==
    /\ Done("c1", "archiveTask") /\ Ok("c1")
    /\ Done("c2", "moveTask") /\ Ok("c2")
    /\ arg["c1"].taskId = arg["c2"].taskId
    /\ tasks[arg["c2"].taskId].status = "todo"

\* C8: for a task in a project that is not archived, moveTask(taskId, t) succeeds
\* for every current status and every t of the four statuses, and its save
\* leaves the stored task with status t.
C8_MoveIsTotal ==
    [][\A c \in Calls :
          op[c] = "moveTask" /\ Moves(c) =>
              /\ (/\ pc[c] = "mt_getProject"
                  /\ ~ProjectArchived(loc[c].task[1].projectId)
                  /\ loc[c].task[1].projectId \in DOMAIN projects
                  /\ arg[c].status \in TheStatuses) => pc'[c] = "mt_save"
              /\ pc[c] = "mt_save" =>
                  /\ pc'[c] = "done"
                  /\ result'[c].kind = "ok"
                  /\ tasks'[arg[c].taskId].status = arg[c].status]_vars

\* a moveTask has moved an archived task to pending
C8_Witness ==
    /\ Done("c1", "archiveTask") /\ Ok("c1")
    /\ Done("c2", "moveTask") /\ Ok("c2")
    /\ arg["c1"].taskId = arg["c2"].taskId
    /\ arg["c2"].status = "pending"
    /\ tasks[arg["c2"].taskId].status = "pending"

\* C9: createTask stores the new task with status todo and archived FALSE when no
\* status is supplied, and with the supplied status and archived = (status =
\* "archived") when one is.
C9_CreateHonoursStatus ==
    \A c \in Calls :
        Done(c, "createTask") /\ Ok(c) =>
            LET task == result[c].task[1]
                want == IF arg[c].status = "undef" THEN "todo" ELSE arg[c].status
            IN /\ task.status = want
               /\ task.archived = (want = "archived")
               /\ tasks[task.id].status = want

\* C10: createTask fails with the not-found error when the project does not
\* exist and with the archived error when it is archived, writing no record and
\* no index; it goes on to create only for a project it read as existing and
\* not archived.
C10_CreateNeedsActiveProject ==
    [][\A c \in Calls :
          op[c] = "createTask" /\ Moves(c) =>
              /\ pc[c] = "ct_ensure" /\ arg[c].projectId \notin DOMAIN projects =>
                    /\ pc'[c] = "done"
                    /\ result'[c] = Thrown("ProjectDoesNotExist")
                    /\ UNCHANGED storeVars
              /\ pc[c] = "ct_ensure" /\ ProjectArchived(arg[c].projectId) =>
                    /\ pc'[c] = "done"
                    /\ result'[c] = Thrown("ProjectIsArchived")
                    /\ UNCHANGED storeVars
              /\ pc[c] # "ct_create" => UNCHANGED storeVars]_vars

\* one createTask has failed on a missing project and another on an archived one
C10_Witness ==
    /\ Done("c1", "createTask") /\ Done("c2", "createTask")
    /\ \E c, d \in Calls :
        /\ Failed(c, "ProjectDoesNotExist")
        /\ Failed(d, "ProjectIsArchived")

ParentMissingOrForeign(c) ==
    \/ arg[c].parentTaskId \notin DOMAIN tasks
    \/ tasks[arg[c].parentTaskId].projectId # arg[c].projectId

\* C11: every stored task with a parentTaskId names a stored task of the same
\* project; a createTask whose parentTaskId names no task, or a task of another
\* project, fails with the parent error and writes nothing; and no step changes the
\* projectId or the parentTaskId of a stored task.
C11_ParentRefsValid ==
    /\ [](\A t \in DOMAIN tasks :
            tasks[t].parentTaskId # 0 =>
                /\ tasks[t].parentTaskId \in DOMAIN tasks
                /\ tasks[tasks[t].parentTaskId].projectId = tasks[t].projectId)
    /\ [][/\ \A c \in Calls :
                (/\ op[c] = "createTask" /\ pc[c] = "ct_parent" /\ Moves(c)
                 /\ ParentMissingOrForeign(c)) =>
                    /\ pc'[c] = "done"
                    /\ result'[c].kind = "error"
                    /\ result'[c].error \in {"ParentTaskDoesNotExist",
                                             "ParentTaskInOtherProject"}
                    /\ UNCHANGED storeVars
          /\ \A t \in DOMAIN tasks :
                /\ t \in DOMAIN tasks'
                /\ tasks'[t].projectId = tasks[t].projectId
                /\ tasks'[t].parentTaskId = tasks[t].parentTaskId]_vars

\* a createTask naming a parent in another project has failed while that parent
\* is stored
C11_Witness ==
    \E c \in Calls :
        /\ Done(c, "createTask") /\ Failed(c, "ParentTaskInOtherProject")
        /\ arg[c].parentTaskId \in DOMAIN tasks
        /\ tasks[arg[c].parentTaskId].projectId # arg[c].projectId

C13_ToolKeepsTags ==
    [][\A c \in Calls :
          (/\ op[c] = "updateTask" /\ arg[c].tool = "update_task"
           /\ arg[c].rawTags = None
           /\ pc[c] = "ut_save" /\ pc'[c] = "done") =>
              tasks'[arg[c].taskId].tags = tasks[arg[c].taskId].tags]_vars

\* C14: an updateTask called with a status returns and stores the task with that
\* status and with archived = (status = "archived").
C14_UpdateHonoursStatus ==
    \A c \in Calls :
        Done(c, "updateTask") /\ Ok(c) /\ arg[c].status # "undef" =>
            /\ result[c].task[1].status = arg[c].status
            /\ result[c].task[1].archived = (arg[c].status = "archived")
            /\ tasks[arg[c].taskId].status = arg[c].status
            /\ tasks[arg[c].taskId].archived = (arg[c].status = "archived")

\* C15: a moveTask or updateTask on a task id that names no task ends at its first
\* read with the task-not-found error; a moveTask with a status outside the four
\* never reaches its save and ends with an error, which is the unsupported-status
\* error once the task and its active project have been read; none of these calls
\* writes a task, a project or an index.
C15_MissingTaskAndBadStatusFail ==
    [][\A c \in Calls :
          Moves(c) =>
              /\ (/\ op[c] \in {"moveTask", "updateTask", "archiveTask"}
                  /\ pc[c] \in {"mt_getTask", "ut_getTask"}
                  /\ arg[c].taskId \notin DOMAIN tasks) =>
                      /\ pc'[c] = "done"
                      /\ result'[c] = Thrown("TaskDoesNotExist")
                      /\ UNCHANGED storeVars
              /\ (op[c] = "moveTask" /\ arg[c].status \notin TheStatuses) =>
                      /\ pc'[c] # "mt_save"
                      /\ pc'[c] = "done" => result'[c].kind = "error"
                      /\ (/\ pc[c] = "mt_getProject"
                          /\ loc[c].task[1].projectId \in DOMAIN projects
                          /\ ~ProjectArchived(loc[c].task[1].projectId)) =>
                              result'[c] = Thrown("UnsupportedTaskStatus")
                      /\ UNCHANGED storeVars]_vars

\* a moveTask with an unsupported status on a stored task and an updateTask on an
\* id of no task have both failed
C15_Witness ==
    /\ Done("c1", "moveTask") /\ Failed("c1", "UnsupportedTaskStatus")
    /\ arg["c1"].taskId \in DOMAIN tasks
    /\ Done("c2", "updateTask") /\ Failed("c2", "TaskDoesNotExist")
    /\ arg["c2"].taskId \notin DOMAIN tasks

CrashedAt(c, places) == result[c].kind = "crashed" /\ result[c].error \in places

\* C16: in an archiveProject call the project is stored as archived before the
\* task batch is written, and the batch is written whole: the step that writes
\* tasks is the batch write, it finds the project already stored as archived and
\* leaves every task of the project archived; no other step of the call writes a
\* task; a process exit writes nothing, so a call that died before its project
\* write leaves the project active, and one that died after it leaves the project
\* archived and every task as it was (one caller: SpecCrash).
C16_ProjectBeforeWholeBatch ==
    /\ [](\A c \in Calls :
            op[c] = "archiveProject" /\ ~frozen[c]
                /\ arg[c].projectId \in DOMAIN projects =>
                    /\ CrashedAt(c, {"ap_get", "ap_save"}) =>
                            ~ProjectArchived(arg[c].projectId)
                    /\ CrashedAt(c, {"ap_smembers", "ap_mget", "ap_saveMany"}) =>
                            ProjectArchived(arg[c].projectId))
    /\ [][/\ \A c \in Calls :
                op[c] = "archiveProject" /\ Moves(c) =>
                    /\ projects' # projects => pc[c] = "ap_save"
                    /\ tasks' # tasks =>
                        /\ pc[c] = "ap_saveMany"
                        /\ ProjectArchived(arg[c].projectId)
                        /\ \A t \in TasksOf(arg[c].projectId) : ArchivedTask(tasks'[t])
                    /\ pc[c] # "ap_saveMany" => UNCHANGED tasks
                    /\ result'[c].kind = "crashed" => UNCHANGED storeVars
          /\ \A p \in DOMAIN projects : projects[p].archived => projects'[p].archived]_vars

\* an archiveProject call died between its project write and its batch write: the
\* project is archived and it has a task that is not
C16_Witness ==
    \E c \in Calls :
        /\ Done(c, "archiveProject")
        /\ CrashedAt(c, {"ap_smembers", "ap_mget", "ap_saveMany"})
        /\ ProjectArchived(arg[c].projectId)
        /\ \E t \in TasksOf(arg[c].projectId) : ~tasks[t].archived

SameTaskPair(c, d) ==
    /\ Done(c, "moveTask") /\ Done(d, "updateTask")
    /\ arg[c].taskId = arg[d].taskId
    /\ arg[c].taskId \in DOMAIN tasks

\* C17: the save of a moveTask or updateTask succeeds and replaces the stored task
\* by the whole record the call built from the task it read, whatever is stored
\* by then; when a moveTask and an updateTask on the same task of an active project
\* overlap, both succeed and the stored task is the record one of them returned.
C17_LastWriteWins ==
    /\ [](\A c, d \in Calls :
            (/\ SameTaskPair(c, d)
             /\ ~ProjectArchivedOf(arg[c].taskId)
             /\ arg[c].status \in TheStatuses) =>
                /\ Ok(c) /\ Ok(d)
                /\ tasks[arg[c].taskId] \in {result[c].task[1], result[d].task[1]})
    /\ [][\A c \in Calls :
            pc[c] \in {"mt_save", "ut_save"} /\ Moves(c) =>
                /\ result'[c] = OkTask(loc[c].task[1])
                /\ tasks' = [t \in DOMAIN tasks |->
                                IF t = arg[c].taskId THEN loc[c].task[1] ELSE tasks[t]]]_vars

\* a moveTask to completed and an updateTask of the title have both returned
\* without error, and the stored task has the new title and is still todo
C17_Witness ==
    \E c, d \in Calls :
        /\ SameTaskPair(c, d) /\ Ok(c) /\ Ok(d)
        /\ arg[c].status = "completed"
        /\ result[c].task[1].status = "completed"
        /\ arg[d].title = Some(<<"b">>)
        /\ tasks[arg[c].taskId].status = "todo"
        /\ tasks[arg[c].taskId].title = <<"b">>

\* C18: every stored project and task has updatedAt >= createdAt, and no step
\* changes the createdAt or lowers the updatedAt of a stored record, also when
\* calls overlap and take their timestamp before they write.
C18_TimestampsMonotonic ==
    /\ [](/\ \A t \in DOMAIN tasks : tasks[t].updatedAt >= tasks[t].createdAt
          /\ \A p \in DOMAIN projects : projects[p].updatedAt >= projects[p].createdAt)
    /\ [][/\ \A t \in DOMAIN tasks :
                /\ tasks'[t].createdAt = tasks[t].createdAt
                /\ tasks'[t].updatedAt >= tasks[t].updatedAt
          /\ \A p \in DOMAIN projects :
                /\ projects'[p].createdAt = projects[p].createdAt
                /\ projects'[p].updatedAt >= projects[p].updatedAt]_vars

\* C19: every stored task has a non-empty title and every stored project a
\* non-empty name, and a createTask, updateTask or createProject whose title or
\* name is empty once trimmed does not return a record.
C19_TitlesAndNamesNonEmpty ==
    /\ \A t \in DOMAIN tasks : tasks[t].title # <<>>
    /\ \A p \in DOMAIN projects : projects[p].name # <<>>
    /\ \A c \in Calls :
        /\ (/\ pc[c] = "done" /\ op[c] \in {"createTask", "updateTask"}
            /\ arg[c].title # None /\ sanitizeString(arg[c].title[1]) = <<>>) => ~Ok(c)
        /\ (/\ pc[c] = "done" /\ op[c] = "createProject"
            /\ sanitizeString(arg[c].name[1]) = <<>>) => ~Ok(c)

\* the tags as the data model keeps them: lowercase, each once
NormalizedTags(tags) ==
    IF tags = None THEN <<>>
    ELSE Dedupe([i \in DOMAIN tags[1] |-> ToLowerCase(tags[1][i])])

\* C20: a task createTask has returned is stored with the title trimmed, the tags
\* lowercased and without duplicates ([] when none were supplied) and the
\* description, priority, dueDate and parentTaskId as supplied, and a listing of
\* every task returns each stored task as it is stored.
C20_CreateRoundTrip ==
    \A c \in Calls :
        /\ Done(c, "createTask") /\ Ok(c) =>
            LET task == tasks[result[c].task[1].id]
            IN /\ task.title = Trim(arg[c].title[1])
               /\ task.tags = NormalizedTags(arg[c].tags)
               /\ task.description = arg[c].description
               /\ task.priority = arg[c].priority
               /\ task.dueDate = arg[c].dueDate
               /\ task.parentTaskId = arg[c].parentTaskId
        /\ Done(c, "listTasks") /\ Ok(c) /\ arg[c].includeArchived
              /\ arg[c].projectId = "none" /\ arg[c].status = "undef" =>
            /\ \A i \in DOMAIN result[c].list :
                    result[c].list[i] = tasks[result[c].list[i].id]
            /\ {result[c].list[i].id : i \in DOMAIN result[c].list} = DOMAIN tasks

\* ----------------------------------------------------------------- searches
SearchDone(c) == Done(c, "searchTasks") /\ Ok(c)

\* C21: a search whose query holds due:before:<date> returns only tasks with a
\* dueDate strictly before the date, and one with due:after:<date> only tasks with
\* a dueDate strictly after it; a task without a dueDate is returned by neither.
C21_DueFiltersStrict ==
    \A c \in Calls :
        SearchDone(c) =>
            \A i \in DOMAIN result[c].list :
                LET due == result[c].list[i].dueDate
                IN /\ arg[c].query = Some(QueryHighBeforeLaunch) =>
                        due # "undef" /\ DateValue(due) < 3
                   /\ arg[c].query = Some(QueryDueBefore) =>
                        due # "undef" /\ DateValue(due) < 2
                   /\ arg[c].query = Some(QueryDueAfter) =>
                        due # "undef" /\ DateValue(due) > 1

\* the tasks listTasks hands to the search: every task, or the tasks that are not
\* archived and whose project is not
VisibleIds(includeArchived) ==
    {t \in DOMAIN tasks :
        includeArchived \/ (~tasks[t].archived /\ ~ProjectArchived(tasks[t].projectId))}

ListedIds(c) == {result[c].list[i].id : i \in DOMAIN result[c].list}

NoDuplicates(c) == Cardinality(ListedIds(c)) = Len(result[c].list)

\* C22: a search never ends in an error; with no tags argument, a query that is
\* absent, blank or made of tokens with unknown keys returns every task listTasks
\* handed over, once each, in ascending createdAt order when no sort is asked for;
\* an unknown-key token next to priority:high changes nothing of what
\* priority:high selects.
C22_UnknownKeysIgnored ==
    \A c \in Calls :
        Done(c, "searchTasks") =>
            /\ Ok(c)
            /\ NoDuplicates(c)
            /\ (/\ arg[c].rawTags = None
                /\ arg[c].query \in {None, Some(<<" ">>), Some(<<":">>),
                                     Some(QueryUnknownKey)}) =>
                    /\ ListedIds(c) = VisibleIds(arg[c].includeArchived)
                    /\ arg[c].sortBy = "undef" =>
                            \A i, j \in DOMAIN result[c].list :
                                i < j => result[c].list[i].createdAt
                                            <= result[c].list[j].createdAt
            /\ (arg[c].rawTags = None /\ arg[c].query = Some(QueryUnknownAndPriority)) =>
                    ListedIds(c) = {t \in VisibleIds(arg[c].includeArchived) :
                                        tasks[t].priority = "high"}

\* a search for "x:y" has returned tasks created at different times
C22_Witness ==
    \E c \in Calls :
        /\ SearchDone(c)
        /\ arg[c].query = Some(QueryUnknownKey) /\ arg[c].rawTags = None
        /\ arg[c].sortBy = "undef"
        /\ \E i, j \in DOMAIN result[c].list :
                result[c].list[i].createdAt < result[c].list[j].createdAt

\* C23: a search whose query holds project:m returns only tasks of the project
\* named m.
C23_ProjectKeyFilters ==
    \A c \in Calls :
        SearchDone(c) /\ arg[c].query = Some(QueryProject) =>
            \A i \in DOMAIN result[c].list :
                projects[result[c].list[i].projectId].name = <<"m">>

\* ----------------------------------------------------------------- listings
ListDone(c) == Done(c, "listTasks") /\ Ok(c)

\* the tasks in the scope of a listing: those of the project asked for, or of every
\* project, without the archived ones unless they are asked for
ScopeIds(c) ==
    IF arg[c].projectId = "none" THEN VisibleIds(arg[c].includeArchived)
    ELSE {t \in DOMAIN tasks :
            /\ tasks[t].projectId = arg[c].projectId
            /\ arg[c].includeArchived \/ ~tasks[t].archived}

\* the status, priority and tag options, each one a test of its own on the task
MatchesOptions(c, t) ==
    /\ arg[c].status # "undef" => tasks[t].status = arg[c].status
    /\ arg[c].priority # "undef" => tasks[t].priority = arg[c].priority
    /\ arg[c].tags # None => Range(arg[c].tags[1]) \cap Range(tasks[t].tags) # {}

ParentIds == {tasks[t].parentTaskId : t \in DOMAIN tasks} \ {0}

\* C24: a listing with hasSubtasks returns, once each, exactly the tasks in scope
\* that pass the status, priority and tag tests and whose id is (hasSubtasks true)
\* or is not (false) the parentTaskId of some stored task, archived or not,
\* listed or not; being a conjunction of tests on the task, the result does not
\* depend on the order of the filters.
C24_HasSubtasksOverWholeStore ==
    \A c \in Calls :
        ListDone(c) /\ arg[c].hasSubtasks # None =>
            /\ NoDuplicates(c)
            /\ ListedIds(c) = {t \in ScopeIds(c) :
                                 /\ MatchesOptions(c, t)
                                 /\ (t \in ParentIds) = arg[c].hasSubtasks[1]}

\* a listing with hasSubtasks true has returned a task all of whose subtasks are
\* outside the listing (archived, or removed by the status filter)
C24_Witness ==
    \E c \in Calls :
        /\ ListDone(c) /\ arg[c].hasSubtasks = Some(TRUE)
        /\ \E i \in DOMAIN result[c].list :
              \A t \in DOMAIN tasks :
                  tasks[t].parentTaskId = result[c].list[i].id =>
                      t \notin {u \in ScopeIds(c) : MatchesOptions(c, u)}

\* the order the claim asks for: x's key is smaller than y's
RankBelow(x, y, sortBy) ==
    LET rank == [undef |-> 0, low |-> 1, medium |-> 2, high |-> 3]
    IN CASE sortBy = "priority" -> rank[x.priority] < rank[y.priority]
         [] sortBy = "dueDate" ->
                /\ x.dueDate # "undef"
                /\ y.dueDate = "undef" \/ DateValue(x.dueDate) < DateValue(y.dueDate)
         [] sortBy = "title" -> StringLess(ToLowerCase(x.title), ToLowerCase(y.title))
         [] OTHER -> x.createdAt < y.createdAt

ComesFirst(x, y, sortBy, order) ==
    IF order = "desc" THEN RankBelow(y, x, sortBy) ELSE RankBelow(x, y, sortBy)

C26_ToolArchivesByName ==
    \A c \in Calls :
        (/\ Done(c, "archiveProject") /\ arg[c].tool = "archive_project"
         /\ \E p \in DOMAIN projects : projects[p].name = arg[c].name[1]) =>
            /\ Ok(c)
            /\ \A p \in DOMAIN projects :
                  projects[p].name = arg[c].name[1] => projects[p].archived

ToolCall(c) == arg[c].tool \in LoopTools /\ ~Idle(c)

\* C30: while a create_task or archive_task tool call runs, the tasks of the
\* items it has gone through are stored (and, for archive_task with no other
\* writer of tasks, archived); the step at which the call for an item throws
\* writes nothing, so these tasks stay as they are, and the tool call ends with
\* the error and with none of the tasks.
C30_NoRollback ==
    /\ [](\A c \in Calls :
            ToolCall(c) =>
                \A i \in DOMAIN result[c].list :
                    LET id == result[c].list[i].id
                    IN /\ id \in DOMAIN tasks /\ id \in tasksIndex
                       /\ arg[c].tool = "archive_task" => ArchivedTask(tasks[id]))
    /\ [][\A c \in Calls :
            (ToolCall(c) /\ pc'[c] = "done" /\ result'[c].kind = "error") =>
                /\ UNCHANGED storeVars
                /\ result'[c].list = <<>>
                /\ result'[c].task = <<>>]_vars

\* a create_task call for two titles has stored the first task and failed on the
\* second, the project having been archived in between
C30_Witness ==
    \E c \in Calls :
        /\ Done(c, "createTask") /\ arg[c].tool = "create_task"
        /\ Failed(c, "ProjectIsArchived")
        /\ arg[c].title = Some(<<"b">>)
        /\ \E t \in DOMAIN tasks : tasks[t].title = <<"a">>
        /\ \A t \in DOMAIN tasks : tasks[t].title # <<"b">>

\* ---------------------------------------------------------- authentication
BothConfigured == config.authUser # None /\ config.authPassword # None

AuthErrors == {"MissingCredentials", "InvalidCredentials"}

\* C27: with both variables configured, a request on any entry point whose
\* Authorization header is missing or is not the expected one has ended with an
\* authentication error, and the step that takes it in reads and writes nothing;
\* with a variable unset, no request ends with an authentication error.
C27_EveryEntryChecksAuth ==
    \A c \in Calls :
        arg[c].entry # "none" =>
            IF BothConfigured
            THEN arg[c].header # Some(buildExpectedHeader("u", "p")) =>
                    /\ pc[c] = "done"
                    /\ result[c].kind = "error" /\ result[c].error \in AuthErrors
            ELSE ~(result[c].kind = "error" /\ result[c].error \in AuthErrors)

\* ------------------------------------------------------- interrupted cascade
\* a task left behind by an archiveProject that stopped between its two writes:
\* its project is archived, the task is not, and no archiveProject on the project
\* is in flight
Stranded(t) ==
    /\ ProjectArchivedOf(t)
    /\ ~tasks[t].archived
    /\ \A c \in Calls :
          Idle(c) \/ op[c] # "archiveProject" \/ arg[c].projectId # tasks[t].projectId

\* C28: once an archiveProject has stopped between the save of the project and
\* the save of the tasks, no step of any later call changes a task it left behind;
\* an archiveProject on the archived project returns the stored project, a
\* moveTask, archiveTask or updateTask on a task of the archived project fails
\* because the project is archived, and a listing with includeArchived true shows
\* the task as it is stored.
C28_NoRepairAfterInterruptedCascade ==
    /\ [][\A t \in DOMAIN tasks : Stranded(t) => tasks'[t] = tasks[t]]_vars
    /\ [](\A c \in Calls :
            /\ (Done(c, "archiveProject") /\ frozen[c] /\ result[c].kind # "crashed") =>
                    Ok(c) /\ result[c].project = <<projects[arg[c].projectId]>>
            /\ (pc[c] = "done" /\ op[c] \in TaskMutators /\ frozen[c]
                /\ result[c].kind # "crashed") =>
                    Failed(c, "CannotUpdateArchivedProject")
            /\ (ListDone(c) /\ arg[c].includeArchived) =>
                    \A t \in DOMAIN tasks :
                        (/\ Stranded(t)
                         /\ arg[c].projectId \in {"none", tasks[t].projectId}
                         /\ arg[c].status \in {"undef", tasks[t].status}) =>
                            \E i \in DOMAIN result[c].list : result[c].list[i] = tasks[t])

\* an archiveProject has died between its two writes, and a later moveTask,
\* archiveTask or updateTask on the task it left behind has failed
C28_Witness ==
    \E c \in Calls :
        /\ pc[c] = "done" /\ op[c] \in TaskMutators
        /\ Failed(c, "CannotUpdateArchivedProject")
        /\ arg[c].taskId \in DOMAIN tasks
        /\ Stranded(arg[c].taskId)

\* ------------------------------------------------------------------ indexes
\* C29: at every moment listByProject(p) is exactly the part of listAll() with
\* projectId p, every id of either index has its record, and no step removes a
\* task or a project, an id from an index, or moves a task to another project.
C29_IndexesAgreeAndGrow ==
    /\ [](/\ tasksIndex = DOMAIN tasks
          /\ projectsIndex = DOMAIN projects
          /\ \A t \in DOMAIN tasks : tasks[t].id = t
          /\ \A p \in ProjectIds :
                /\ projectTasks[p] \subseteq tasksIndex
                /\ LET listAll == Range(TaskListByIds(SetToSeq(tasksIndex)))
                       listByProject == Range(TaskListByIds(SetToSeq(projectTasks[p])))
                   IN listByProject = {task \in listAll : task.projectId = p})
    /\ [][/\ DOMAIN tasks \subseteq DOMAIN tasks'
          /\ DOMAIN projects \subseteq DOMAIN projects'
          /\ tasksIndex \subseteq tasksIndex'
          /\ projectsIndex \subseteq projectsIndex'
          /\ \A p \in ProjectIds : projectTasks[p] \subseteq projectTasks'[p]
          /\ \A t \in DOMAIN tasks : tasks'[t].projectId = tasks[t].projectId]_vars

\* a project holds two tasks, and one of them has been archived
C29_Witness ==
    \E p \in ProjectIds :
        /\ Cardinality(projectTasks[p]) >= 2
        /\ \E t \in projectTasks[p] : tasks[t].archived

====
